---- MODULE Spec2Model ----
(***************************************************************************)
(* A model of src/main.cpp: the MyVideoPlayer class and main().            *)
(*                                                                         *)
(* Three threads run: the main thread (main, setupPlayer, startPlayback,   *)
(* the GLib main loop with the bus watch, ~MyVideoPlayer/cleanup), the     *)
(* detached Track Inspector thread (showStreamDetails, listTracks) and the *)
(* joinable Command Interpreter thread (handleUserInput).                  *)
(*                                                                         *)
(* GLib's main loop is modelled by its is_running flag:                    *)
(*   g_main_loop_new   creates the loop with is_running = FALSE,           *)
(*   g_main_loop_run   sets is_running = TRUE and iterates while it holds, *)
(*   g_main_loop_quit  sets is_running = FALSE.                            *)
(* A plain bool field shared by two threads (m_quit) or a pointer field    *)
(* (m_pipeline) is read and written in single atomic steps; the two orders *)
(* of an unsynchronised read and write are the two interleavings.          *)
(***************************************************************************)
EXTENDS Integers, Sequences, FiniteSets, TLC

VARIABLES
    pcMain,            \* position of the main thread
    argc,              \* main's argc
    exitCode,          \* the process exit code, -1 while the process runs
    setupResult,       \* "pending", "ok" or "failed": what setupPlayer returned
    mPipeline,         \* m_pipeline: "null" or "set"
    mMainloop,         \* m_mainloop: "null" or "set"
    mQuit,             \* m_quit
    linesAtQuit,       \* linesRead as it was when line 82 set m_quit
    pipelineObj,       \* the playbin object: "none", "alive" or "freed"
    pipeState,         \* the playbin's requested state: "NULL" or "PLAYING"
    pipeConfig,        \* the properties set on the playbin by setupPlayer
    busWatch,          \* whether busMessageHandler is registered on the bus
    loopObj,           \* the GMainLoop object: "none", "alive" or "freed"
    loopRunning,       \* GMainLoop.is_running
    pipelineReleases,  \* number of gst_object_unref(m_pipeline) calls
    loopReleases,      \* number of g_main_loop_unref(m_mainloop) calls
    playRequests,      \* number of gst_element_set_state(.., PLAYING) calls
    pcInput,           \* position of the handleUserInput thread
    lastLine,          \* cmd: the line std::getline read last
    linesRead,         \* number of lines std::getline has delivered
    stdinEof,          \* whether std::getline has reported end-of-input
    requests,          \* the g_object_set calls of switchAudio/switchSubtitle
    inputLog,          \* what handleUserInput printed for the last line
    inputQuitCalls,    \* g_main_loop_quit calls made by handleUserInput
    bridgeQuitCalls,   \* g_main_loop_quit calls made by handleBusMessage
    lastBus,           \* kind of the last bus message handled
    busLog,            \* what handleBusMessage printed for it
    pcInfo,            \* position of the showStreamDetails thread
    audioTracks,       \* showStreamDetails' local audioTracks
    subtitleTracks,    \* showStreamDetails' local subtitleTracks
    infoIdx,           \* listTracks' loop index i
    usedReleased       \* threads that passed a released handle to the engine

vars == << pcMain, argc, exitCode, setupResult, mPipeline, mMainloop, mQuit,
           linesAtQuit, stdinEof,
           pipelineObj, pipeState, pipeConfig, busWatch, loopObj, loopRunning,
           pipelineReleases, loopReleases, playRequests, pcInput, lastLine,
           linesRead, requests, inputLog, inputQuitCalls, bridgeQuitCalls,
           lastBus, busLog, pcInfo, audioTracks, subtitleTracks, infoIdx,
           usedReleased >>

mainVars == << pcMain, argc, exitCode, setupResult >>
playerVars == << mPipeline, mMainloop, pipelineObj, pipeState, loopObj,
                 loopRunning, pipelineReleases, loopReleases >>
inputVars == << pcInput, lastLine, linesRead, stdinEof, requests, inputLog,
                inputQuitCalls >>
bridgeVars == << bridgeQuitCalls, lastBus, busLog >>
infoVars == << pcInfo, audioTracks, subtitleTracks, infoIdx >>

-----------------------------------------------------------------------------
(* Bounds of the model. *)

\* longest line of the exhaustive part of the Command Interpreter's line set
MaxLen == 2
\* number of lines standard input delivers before end-of-input
MaxLines == 2
\* largest track count the engine reports for one kind
MaxTracks == 1

\* std::stoi's range: int is 32 bits wide
INT_MAX == 2147483647
INT_MIN == (-INT_MAX) - 1

-----------------------------------------------------------------------------
(* Lines of standard input: sequences of one-character strings. *)

Strings(A, n) == UNION { [1..k -> A] : k \in 0..n }

Alphabet == {"a", "s", "q", "1", "-", " "}

\* lines with other characters, longer lines and lines at the edge of int
ExtraLines ==
    { << "a", "0" >>, << "s", "0", "1" >>, << "a", "1", "1" >>,
      << "a", "-", "1" >>, << "s", "-", "1" >>, << "a", " ", "5" >>,
      << "a", "+", "5" >>, << "a", "1", "x" >>, << "s", "1", " " >>,
      << "x", "y", "z" >>, << "a", "a", "b", "c" >>, << "q", "q" >>,
      << "a", "2", "1", "4", "7", "4", "8", "3", "6", "4", "7" >>,
      << "s", "2", "1", "4", "7", "4", "8", "3", "6", "4", "8" >>,
      << "a", "-", "2", "1", "4", "7", "4", "8", "3", "6", "4", "8" >>,
      << "s", "-", "2", "1", "4", "7", "4", "8", "3", "6", "4", "9" >>,
      << "a", "9", "9", "9", "9", "9", "9", "9", "9", "9", "9", "9" >> }

\* the lines delivered when the Command Interpreter runs alone
AllLines == Strings(Alphabet, MaxLen) \cup ExtraLines

\* the lines standard input delivers when all three threads run
CoreLines == { << "q" >>, << "a", "2" >>, << "s", "1" >>, << "a", "-", "1" >>,
               << "x", "y", "z" >>, << "a", "x" >> }

QuitLine == << "q" >>

-----------------------------------------------------------------------------
(* std::stoi(str): strtol in base 10 followed by the range check of int.   *)
(* It skips leading white space, takes an optional sign, then the longest  *)
(* run of digits, and ignores whatever follows. No digit: invalid_argument.*)
(* A value outside int: out_of_range.                                      *)

Digits == {"0", "1", "2", "3", "4", "5", "6", "7", "8", "9"}
DigitVal == [c \in Digits |->
    CASE c = "0" -> 0 [] c = "1" -> 1 [] c = "2" -> 2 [] c = "3" -> 3
      [] c = "4" -> 4 [] c = "5" -> 5 [] c = "6" -> 6 [] c = "7" -> 7
      [] c = "8" -> 8 [] c = "9" -> 9]

IsSpace(c) == c = " "

RECURSIVE SkipSpace(_, _)
SkipSpace(s, i) ==
    IF i <= Len(s) /\ IsSpace(s[i]) THEN SkipSpace(s, i + 1) ELSE i

RECURSIVE DigitsEnd(_, _)
DigitsEnd(s, i) ==
    IF i <= Len(s) /\ s[i] \in Digits THEN DigitsEnd(s, i + 1) ELSE i

\* The digits s[i..j-1] accumulated as a non-positive number, so that the
\* magnitude of INT_MIN is representable; "range" when the value passes lim.
RECURSIVE Accumulate(_, _, _, _, _)
Accumulate(s, i, j, acc, lim) ==
    IF i >= j THEN [ok |-> TRUE, val |-> acc]
    ELSE LET d == DigitVal[s[i]]
         IN  IF acc < ((lim + d) + 9) \div 10
             THEN [ok |-> FALSE, val |-> 0]
             ELSE Accumulate(s, i + 1, j, (acc * 10) - d, lim)

Stoi(s) ==
    LET i0  == SkipSpace(s, 1)
        neg == i0 <= Len(s) /\ s[i0] = "-"
        i1  == IF i0 <= Len(s) /\ s[i0] \in {"-", "+"} THEN i0 + 1 ELSE i0
        j   == DigitsEnd(s, i1)
        r   == Accumulate(s, i1, j, 0, IF neg THEN INT_MIN ELSE -INT_MAX)
    IN  IF j = i1 THEN [ok |-> FALSE, err |-> "invalid_argument", val |-> 0]
        ELSE IF ~r.ok THEN [ok |-> FALSE, err |-> "out_of_range", val |-> 0]
        ELSE [ok |-> TRUE, err |-> "none",
              val |-> IF neg THEN r.val ELSE -r.val]

-----------------------------------------------------------------------------
(* handleUserInput's treatment of one line, lines 141-158.                 *)
(*   kind "quit":     cmd == "q"                                           *)
(*   kind "audio":    switchAudio(val)                                     *)
(*   kind "subtitle": switchSubtitle(val)                                  *)
(*   kind "invalid":  std::stoi threw, "Invalid track number" is printed   *)
(*   kind "ignored":  neither branch is taken, nothing is printed          *)

\* line 147 with the test for 'a' left out
IsTrackCommandSubtitleOnly(cmd) == Len(cmd) > 1 /\ cmd[1] = "s"

IsTrackCommand(cmd) == Len(cmd) > 1 /\ (cmd[1] = "a" \/ cmd[1] = "s")

Dispatch(cmd) ==
    IF cmd = QuitLine THEN [kind |-> "quit", val |-> 0]
    ELSE IF IsTrackCommand(cmd)
    THEN LET r == Stoi(SubSeq(cmd, 2, Len(cmd)))
         IN  IF r.ok
             THEN IF cmd[1] = "a"
                  THEN [kind |-> "audio", val |-> r.val]
                  ELSE [kind |-> "subtitle", val |-> r.val]
             ELSE [kind |-> "invalid", val |-> 0]
    ELSE [kind |-> "ignored", val |-> 0]

\* what the thread prints while it handles a line
InputLogOf(d) ==
    CASE d.kind = "quit"     -> "Shutting down..."
      [] d.kind = "audio"    -> "Switched to audio track"
      [] d.kind = "subtitle" -> "Switched to subtitle track"
      [] d.kind = "invalid"  -> "Invalid track number"
      [] OTHER               -> "none"

\* switchAudio and switchSubtitle with their properties exchanged
PropertyOfSwapped(d) == IF d.kind = "audio" THEN "current-text" ELSE "current-audio"

\* the property switchAudio / switchSubtitle sets
PropertyOf(d) == IF d.kind = "audio" THEN "current-audio" ELSE "current-text"

\* whether a handle can be passed to the engine
PipelineUsable == mPipeline = "set" /\ pipelineObj = "alive"
LoopUsable == mMainloop = "set" /\ loopObj = "alive"

ProcessAlive == pcMain # "exited"

-----------------------------------------------------------------------------
(* The fields cleanup() reads and writes, as a record, and cleanup's two   *)
(* blocks as functions on it.                                              *)

Player == [ mPipeline |-> mPipeline, pipelineObj |-> pipelineObj,
            pipeState |-> pipeState, pipelineReleases |-> pipelineReleases,
            mMainloop |-> mMainloop, loopObj |-> loopObj,
            loopRunning |-> loopRunning, loopReleases |-> loopReleases ]

\* cleanup without the reset of m_pipeline at line 214
CleanupPipelineKeepsPointer(p) ==
    IF p.mPipeline # "null"
    THEN [p EXCEPT !.pipeState = "NULL",
                   !.pipelineObj = "freed",
                   !.pipelineReleases = @ + 1]
    ELSE p

\* lines 211-215
CleanupPipeline(p) ==
    IF p.mPipeline # "null"
    THEN [p EXCEPT !.pipeState = "NULL",
                   !.pipelineObj = "freed",
                   !.pipelineReleases = @ + 1,
                   !.mPipeline = "null"]
    ELSE p

\* cleanup without the g_main_loop_unref of line 220
CleanupLoopSkipsUnref(p) ==
    IF p.mMainloop # "null"
    THEN [p EXCEPT !.loopRunning = FALSE, !.mMainloop = "null"]
    ELSE p

\* lines 216-222
CleanupLoop(p) ==
    IF p.mMainloop # "null"
    THEN [p EXCEPT !.loopRunning = FALSE,
                   !.loopObj = "freed",
                   !.loopReleases = @ + 1,
                   !.mMainloop = "null"]
    ELSE p

Cleanup(p) == CleanupLoop(CleanupPipeline(p))

SetPlayer(p) ==
    /\ mPipeline' = p.mPipeline
    /\ pipelineObj' = p.pipelineObj
    /\ pipeState' = p.pipeState
    /\ pipelineReleases' = p.pipelineReleases
    /\ mMainloop' = p.mMainloop
    /\ loopObj' = p.loopObj
    /\ loopRunning' = p.loopRunning
    /\ loopReleases' = p.loopReleases

NoConfig == [uri |-> "", latency |-> 0, bufferSize |-> 0, ringBufferMaxSize |-> 0]
PlayerConfig == [uri |-> "m_streamUrl", latency |-> 500,
                 bufferSize |-> 4 * 1024 * 1024, ringBufferMaxSize |-> 0]

-----------------------------------------------------------------------------
(* The initial state: main has been entered, with or without a URL. *)

Init ==
    /\ pcMain = "main"
    /\ argc \in {1, 2}
    /\ exitCode = -1
    /\ setupResult = "pending"
    /\ mPipeline = "null"
    /\ mMainloop = "null"
    /\ mQuit = FALSE
    /\ linesAtQuit = 0
    /\ stdinEof = FALSE
    /\ pipelineObj = "none"
    /\ pipeState = "NULL"
    /\ pipeConfig = NoConfig
    /\ busWatch = FALSE
    /\ loopObj = "none"
    /\ loopRunning = FALSE
    /\ pipelineReleases = 0
    /\ loopReleases = 0
    /\ playRequests = 0
    /\ pcInput = "none"
    /\ lastLine = << >>
    /\ linesRead = 0
    /\ requests = << >>
    /\ inputLog = "none"
    /\ inputQuitCalls = 0
    /\ bridgeQuitCalls = 0
    /\ lastBus = "none"
    /\ busLog = "none"
    /\ pcInfo = "none"
    /\ audioTracks = 0
    /\ subtitleTracks = 0
    /\ infoIdx = 0
    /\ usedReleased = {}

-----------------------------------------------------------------------------
(* The main thread. *)

\* main without the usage check of lines 228-232
MainArgsNoUsageCheck ==
    /\ pcMain = "main"
    /\ pcMain' = "setup" /\ exitCode' = exitCode
    /\ UNCHANGED << argc, setupResult, mQuit, linesAtQuit, pipeConfig, busWatch,
                    playRequests, usedReleased >>
    /\ UNCHANGED << playerVars, inputVars, bridgeVars, infoVars >>

\* main, lines 228-234: the usage check and the construction of the player
MainArgs ==
    /\ pcMain = "main"
    /\ IF argc < 2
       THEN pcMain' = "exited" /\ exitCode' = 1
       ELSE pcMain' = "setup" /\ exitCode' = exitCode
    /\ UNCHANGED << argc, setupResult, mQuit, linesAtQuit, pipeConfig, busWatch, playRequests,
                    usedReleased >>
    /\ UNCHANGED << playerVars, inputVars, bridgeVars, infoVars >>

\* setupPlayer, lines 27-60; created is what gst_element_factory_make returns
SetupPlayer(created) ==
    /\ pcMain = "setup"
    /\ IF ~created
       THEN /\ setupResult' = "failed"
            /\ UNCHANGED << mPipeline, pipelineObj, pipeConfig, busWatch,
                            mMainloop, loopObj >>
       ELSE /\ setupResult' = "ok"
            /\ mPipeline' = "set"
            /\ pipelineObj' = "alive"
            /\ pipeConfig' = PlayerConfig
            /\ busWatch' = TRUE
            /\ mMainloop' = "set"
            /\ loopObj' = "alive"
    /\ pcMain' = "setup_done"
    /\ UNCHANGED << argc, exitCode, mQuit, linesAtQuit, pipeState, loopRunning,
                    pipelineReleases, loopReleases, playRequests, usedReleased >>
    /\ UNCHANGED << inputVars, bridgeVars, infoVars >>

\* main without the return of lines 236-238
MainAfterSetupIgnoresResult ==
    /\ pcMain = "setup_done"
    /\ pcMain' = "start"
    /\ UNCHANGED << argc, exitCode, setupResult, mQuit, linesAtQuit, pipeConfig, busWatch,
                    playRequests, usedReleased >>
    /\ UNCHANGED << playerVars, inputVars, bridgeVars, infoVars >>

\* main, lines 236-238
MainAfterSetup ==
    /\ pcMain = "setup_done"
    /\ pcMain' = IF setupResult = "failed" THEN "return2" ELSE "start"
    /\ UNCHANGED << argc, exitCode, setupResult, mQuit, linesAtQuit, pipeConfig, busWatch,
                    playRequests, usedReleased >>
    /\ UNCHANGED << playerVars, inputVars, bridgeVars, infoVars >>

\* startPlayback, lines 63-76: the guard, the state change, the two threads
StartPlayback ==
    /\ pcMain = "start"
    /\ IF mPipeline = "null"
       THEN /\ pcMain' = "return0"
            /\ UNCHANGED << pipeState, playRequests, pcInfo, pcInput >>
       ELSE /\ pipeState' = "PLAYING"
            /\ playRequests' = playRequests + 1
            /\ pcInfo' = "sleep"
            /\ pcInput' = "check"
            /\ pcMain' = "run"
    /\ UNCHANGED << argc, exitCode, setupResult, mPipeline, mMainloop, mQuit, linesAtQuit,
                    pipelineObj, pipeConfig, busWatch, loopObj, loopRunning,
                    pipelineReleases, loopReleases, lastLine, linesRead, stdinEof,
                    requests, inputLog, inputQuitCalls, audioTracks,
                    subtitleTracks, infoIdx, usedReleased >>
    /\ UNCHANGED bridgeVars

\* g_main_loop_run, line 78, on entry: is_running is set
EnterLoop ==
    /\ pcMain = "run"
    /\ loopRunning' = TRUE
    /\ pcMain' = "loop"
    /\ UNCHANGED << argc, exitCode, setupResult, mPipeline, mMainloop, mQuit, linesAtQuit,
                    pipelineObj, pipeState, pipeConfig, busWatch, loopObj,
                    pipelineReleases, loopReleases, playRequests, usedReleased >>
    /\ UNCHANGED << inputVars, bridgeVars, infoVars >>

BusKinds == {"error", "eos", "state-changed-pipeline", "state-changed-element",
             "other"}

\* what handleBusMessage prints, lines 102, 114, 122
BusLogOf(kind) ==
    CASE kind = "error" -> "PLAYER ERROR"
      [] kind = "eos" -> "End of Stream reached"
      [] kind = "state-changed-pipeline" -> "State"
      [] OTHER -> "none"

\* handleBusMessage quitting on the pipeline's state changes as well
BusQuitsOnStateChange(kind) ==
    kind \in {"error", "eos", "state-changed-pipeline"}

\* handleBusMessage without the g_main_loop_quit of line 109
BusQuitsOnEosOnly(kind) == kind = "eos"

\* whether handleBusMessage calls g_main_loop_quit, lines 109 and 115
BusQuits(kind) == kind \in {"error", "eos"}

\* handleBusMessage removing the watch after an error (return FALSE)
BusHandlerResultDropsOnError(kind) == kind # "error"

\* what handleBusMessage returns, line 130: TRUE keeps the watch installed
BusHandlerResult(kind) == TRUE

\* one iteration of the running loop that dispatches a bus message of the
\* given kind to busMessageHandler / handleBusMessage, lines 88-131
HandleBusMessage(kind) ==
    /\ pcMain = "loop"
    /\ loopRunning
    /\ busWatch
    /\ pipeState = "PLAYING"
    /\ lastBus' = kind
    /\ busLog' = BusLogOf(kind)
    /\ busWatch' = BusHandlerResult(kind)
    /\ IF BusQuits(kind)
       THEN loopRunning' = FALSE /\ bridgeQuitCalls' = bridgeQuitCalls + 1
       ELSE UNCHANGED << loopRunning, bridgeQuitCalls >>
    /\ UNCHANGED << mainVars, mPipeline, mMainloop, mQuit, linesAtQuit, pipelineObj,
                    pipeState, pipeConfig, loopObj, pipelineReleases,
                    loopReleases, playRequests, usedReleased >>
    /\ UNCHANGED << inputVars, infoVars >>

\* g_main_loop_run, line 78, returning once is_running is FALSE
LoopReturn ==
    /\ pcMain = "loop"
    /\ ~loopRunning
    /\ pcMain' = "after_loop"
    /\ UNCHANGED << argc, exitCode, setupResult, mQuit, linesAtQuit, pipeConfig, busWatch,
                    playRequests, usedReleased >>
    /\ UNCHANGED << playerVars, inputVars, bridgeVars, infoVars >>

\* the thread is joinable from its construction at line 76 until it is joined
Joinable == pcInput # "none"

\* startPlayback, lines 81-82
SetQuit ==
    /\ pcMain = "after_loop"
    /\ IF Joinable
       THEN mQuit' = TRUE /\ linesAtQuit' = linesRead /\ pcMain' = "join"
       ELSE UNCHANGED << mQuit, linesAtQuit >> /\ pcMain' = "return0"
    /\ UNCHANGED << argc, exitCode, setupResult, pipeConfig, busWatch,
                    playRequests, usedReleased >>
    /\ UNCHANGED << playerVars, inputVars, bridgeVars, infoVars >>

\* startPlayback without the join of line 83
JoinReadyNoWait == TRUE

\* whether m_inputThread.join() can return
JoinReady == pcInput = "done"

\* startPlayback giving up on the join of line 83 after a while
JoinTimesOut ==
    /\ pcMain = "join"
    /\ pcMain' = "return0"
    /\ UNCHANGED << argc, exitCode, setupResult, mQuit, linesAtQuit, pipeConfig,
                    busWatch, playRequests, usedReleased >>
    /\ UNCHANGED << playerVars, inputVars, bridgeVars, infoVars >>

\* startPlayback, line 83
Join ==
    /\ pcMain = "join"
    /\ JoinReady
    /\ pcMain' = "return0"
    /\ UNCHANGED << argc, exitCode, setupResult, mQuit, linesAtQuit, pipeConfig, busWatch,
                    playRequests, usedReleased >>
    /\ UNCHANGED << playerVars, inputVars, bridgeVars, infoVars >>

\* ~MyVideoPlayer at the return of main, lines 23-25: cleanup's first block
DestructPipeline ==
    /\ pcMain \in {"return0", "return2"}
    /\ SetPlayer(CleanupPipeline(Player))
    /\ pcMain' = IF pcMain = "return0" THEN "cleanup0" ELSE "cleanup2"
    /\ UNCHANGED << argc, exitCode, setupResult, mQuit, linesAtQuit, pipeConfig, busWatch,
                    playRequests, usedReleased >>
    /\ UNCHANGED << inputVars, bridgeVars, infoVars >>

\* cleanup's second block
DestructLoop ==
    /\ pcMain \in {"cleanup0", "cleanup2"}
    /\ SetPlayer(CleanupLoop(Player))
    /\ pcMain' = IF pcMain = "cleanup0" THEN "destroyed0" ELSE "destroyed2"
    /\ UNCHANGED << argc, exitCode, setupResult, mQuit, linesAtQuit, pipeConfig, busWatch,
                    playRequests, usedReleased >>
    /\ UNCHANGED << inputVars, bridgeVars, infoVars >>

\* main returns: the process ends and with it every thread
ProcessExit ==
    /\ pcMain \in {"destroyed0", "destroyed2"}
    /\ exitCode' = IF pcMain = "destroyed0" THEN 0 ELSE 2
    /\ pcMain' = "exited"
    /\ UNCHANGED << argc, setupResult, mQuit, linesAtQuit, pipeConfig, busWatch,
                    playRequests, usedReleased >>
    /\ UNCHANGED << playerVars, inputVars, bridgeVars, infoVars >>

-----------------------------------------------------------------------------
(* The Command Interpreter thread, handleUserInput, lines 133-160. *)

\* the loop of line 140 without its !m_quit operand
InputCheckIgnoresQuit ==
    /\ ProcessAlive
    /\ pcInput = "check"
    /\ pcInput' = "getline"
    /\ UNCHANGED << lastLine, linesRead, stdinEof, requests, inputLog,
                    inputQuitCalls >>
    /\ UNCHANGED << mainVars, playerVars, bridgeVars, infoVars >>
    /\ UNCHANGED << mQuit, linesAtQuit, pipeConfig, busWatch, playRequests,
                    usedReleased >>

\* the loop condition's first operand, line 140: !m_quit
InputCheck ==
    /\ ProcessAlive
    /\ pcInput = "check"
    /\ pcInput' = IF mQuit THEN "done" ELSE "getline"
    /\ UNCHANGED << lastLine, linesRead, stdinEof, requests, inputLog, inputQuitCalls >>
    /\ UNCHANGED << mainVars, playerVars, bridgeVars, infoVars >>
    /\ UNCHANGED << mQuit, linesAtQuit, pipeConfig, busWatch, playRequests, usedReleased >>

\* handleUserInput without the break of line 144
InputNextNoBreak(d) == "check"

\* where the thread goes after a line: break on "q", else back to line 140
InputNext(d) == IF d.kind = "quit" THEN "done" ELSE "check"

\* std::getline delivers a line and the loop body handles it, lines 140-158
InputReadLine(line) ==
    LET d == Dispatch(line)
    IN  /\ ProcessAlive
        /\ pcInput = "getline"
        /\ linesRead < MaxLines
        /\ lastLine' = line
        /\ stdinEof' = stdinEof
        /\ linesRead' = linesRead + 1
        /\ inputLog' = InputLogOf(d)
        /\ pcInput' = InputNext(d)
        /\ IF d.kind = "quit"
           THEN /\ loopRunning' = FALSE
                /\ inputQuitCalls' = inputQuitCalls + 1
                /\ requests' = requests
                /\ usedReleased' = IF LoopUsable THEN usedReleased
                                   ELSE usedReleased \cup {"input"}
           ELSE IF d.kind \in {"audio", "subtitle"}
           THEN /\ requests' = Append(requests, << PropertyOf(d), d.val >>)
                /\ usedReleased' = IF PipelineUsable THEN usedReleased
                                   ELSE usedReleased \cup {"input"}
                /\ UNCHANGED << loopRunning, inputQuitCalls >>
           ELSE UNCHANGED << loopRunning, inputQuitCalls, requests,
                             usedReleased >>
        /\ UNCHANGED << mainVars, bridgeVars, infoVars >>
        /\ UNCHANGED << mPipeline, mMainloop, mQuit, linesAtQuit, pipelineObj, pipeState,
                        pipeConfig, busWatch, loopObj, pipelineReleases,
                        loopReleases, playRequests >>

\* handleUserInput retrying after end-of-input
InputAfterEofRetries == "check"

\* where the thread goes when std::getline fails: the loop ends
InputAfterEof == "done"

\* std::getline reports end-of-input, line 140
InputEof ==
    /\ ProcessAlive
    /\ pcInput = "getline"
    /\ pcInput' = InputAfterEof
    /\ stdinEof' = TRUE
    /\ UNCHANGED << lastLine, linesRead, requests, inputLog, inputQuitCalls >>
    /\ UNCHANGED << mainVars, playerVars, bridgeVars, infoVars >>
    /\ UNCHANGED << mQuit, linesAtQuit, pipeConfig, busWatch, playRequests, usedReleased >>

-----------------------------------------------------------------------------
(* The Track Inspector thread, showStreamDetails and listTracks. *)

\* the result of the guard at line 166, read after the sleep of line 164
InfoGuard == IF mPipeline = "null" THEN "done" ELSE "counts"

InfoWake ==
    /\ ProcessAlive
    /\ pcInfo = "sleep"
    /\ pcInfo' = InfoGuard
    /\ UNCHANGED << audioTracks, subtitleTracks, infoIdx >>
    /\ UNCHANGED << mainVars, playerVars, inputVars, bridgeVars >>
    /\ UNCHANGED << mQuit, linesAtQuit, pipeConfig, busWatch, playRequests, usedReleased >>

\* a call into the engine with m_pipeline, by the inspector
InfoUse == IF PipelineUsable THEN usedReleased ELSE usedReleased \cup {"info"}

\* g_object_get of the track counts, lines 168-178; na and ns are the counts
\* the engine reports (a null handle makes g_object_get return at once)
InfoCounts(na, ns) ==
    /\ ProcessAlive
    /\ pcInfo = "counts"
    /\ mPipeline = "null" => na = 0 /\ ns = 0
    /\ audioTracks' = na
    /\ subtitleTracks' = ns
    /\ infoIdx' = 0
    /\ pcInfo' = "audio"
    /\ usedReleased' = InfoUse
    /\ UNCHANGED << mainVars, playerVars, inputVars, bridgeVars >>
    /\ UNCHANGED << mQuit, linesAtQuit, pipeConfig, busWatch, playRequests >>

InfoCount == IF pcInfo = "audio" THEN audioTracks ELSE subtitleTracks

\* one iteration of listTracks, lines 185-197: the tag query for index i
InfoQueryTags ==
    /\ ProcessAlive
    /\ pcInfo \in {"audio", "text"}
    /\ infoIdx < InfoCount
    /\ infoIdx' = infoIdx + 1
    /\ usedReleased' = InfoUse
    /\ UNCHANGED << pcInfo, audioTracks, subtitleTracks >>
    /\ UNCHANGED << mainVars, playerVars, inputVars, bridgeVars >>
    /\ UNCHANGED << mQuit, linesAtQuit, pipeConfig, busWatch, playRequests >>

\* listTracks returns, lines 180-182
InfoListDone ==
    /\ ProcessAlive
    /\ pcInfo \in {"audio", "text"}
    /\ infoIdx >= InfoCount
    /\ infoIdx' = 0
    /\ pcInfo' = IF pcInfo = "audio" THEN "text" ELSE "done"
    /\ UNCHANGED << audioTracks, subtitleTracks >>
    /\ UNCHANGED << mainVars, playerVars, inputVars, bridgeVars >>
    /\ UNCHANGED << mQuit, linesAtQuit, pipeConfig, busWatch, playRequests, usedReleased >>

-----------------------------------------------------------------------------
(* Specifications. *)

MainThread ==
    \/ MainArgs
    \/ \E created \in BOOLEAN : SetupPlayer(created)
    \/ MainAfterSetup
    \/ StartPlayback
    \/ EnterLoop
    \/ LoopReturn
    \/ SetQuit
    \/ Join
    \/ DestructPipeline
    \/ DestructLoop
    \/ ProcessExit

InfoThread ==
    \/ InfoWake
    \/ \E na, ns \in 0..MaxTracks : InfoCounts(na, ns)
    \/ InfoQueryTags
    \/ InfoListDone

StdinDelivers ==
    \/ \E line \in CoreLines : InputReadLine(line)
    \/ InputEof

Next ==
    \/ MainArgs
    \/ \E created \in BOOLEAN : SetupPlayer(created)
    \/ MainAfterSetup
    \/ StartPlayback
    \/ EnterLoop
    \/ \E kind \in BusKinds : HandleBusMessage(kind)
    \/ LoopReturn
    \/ SetQuit
    \/ Join
    \/ DestructPipeline
    \/ DestructLoop
    \/ ProcessExit
    \/ InputCheck
    \/ \E line \in CoreLines : InputReadLine(line)
    \/ InputEof
    \/ InfoWake
    \/ \E na, ns \in 0..MaxTracks : InfoCounts(na, ns)
    \/ InfoQueryTags
    \/ InfoListDone

\* every interleaving of the three threads, the engine and standard input
Spec == Init /\ [][Next]_vars

\* the same, with every thread scheduled; the engine's notifications and the
\* lines of standard input come when they come
FairSpec ==
    /\ Spec
    /\ WF_vars(MainThread)
    /\ WF_vars(InputCheck)
    /\ WF_vars(InfoThread)

\* the state in which the main thread blocks in g_main_loop_run and the
\* Command Interpreter is about to evaluate its loop condition
InitCmd ==
    /\ pcMain = "loop"
    /\ argc = 2
    /\ exitCode = -1
    /\ setupResult = "ok"
    /\ mPipeline = "set"
    /\ mMainloop = "set"
    /\ mQuit = FALSE
    /\ linesAtQuit = 0
    /\ stdinEof = FALSE
    /\ pipelineObj = "alive"
    /\ pipeState = "PLAYING"
    /\ pipeConfig = PlayerConfig
    /\ busWatch = TRUE
    /\ loopObj = "alive"
    /\ loopRunning = TRUE
    /\ pipelineReleases = 0
    /\ loopReleases = 0
    /\ playRequests = 1
    /\ pcInput = "check"
    /\ lastLine = << >>
    /\ linesRead = 0
    /\ requests = << >>
    /\ inputLog = "none"
    /\ inputQuitCalls = 0
    /\ bridgeQuitCalls = 0
    /\ lastBus = "none"
    /\ busLog = "none"
    /\ pcInfo = "sleep"
    /\ audioTracks = 0
    /\ subtitleTracks = 0
    /\ infoIdx = 0
    /\ usedReleased = {}

NextCmd ==
    \/ InputCheck
    \/ \E line \in AllLines : InputReadLine(line)
    \/ InputEof

\* the Command Interpreter alone, on every line of AllLines
SpecCmd == InitCmd /\ [][NextCmd]_vars

-----------------------------------------------------------------------------
(* What the claims speak of, stated apart from the code's own parsing. *)

\* the step in which std::getline delivered a line; the line is lastLine'
ReadStep == linesRead' = linesRead + 1

\* the Command Interpreter has read the line q
QuitRead == linesRead > 0 /\ lastLine = QuitLine

IsDigitString(s) == Len(s) > 0 /\ \A i \in 1..Len(s) : s[i] \in Digits

\* a line of the form a<N> or s<N>, <N> a digit string
IsTrackLine(line) ==
    Len(line) > 1 /\ line[1] \in {"a", "s"} /\ IsDigitString(Tail(line))

WantedProperty(line) == IF line[1] = "a" THEN "current-audio" ELSE "current-text"

RECURSIVE StripZeros(_)
StripZeros(ds) ==
    IF Len(ds) > 1 /\ ds[1] = "0" THEN StripZeros(Tail(ds)) ELSE ds

DigitChar == [n \in 0..9 |-> CHOOSE c \in Digits : DigitVal[c] = n]

\* the decimal numeral of a non-negative integer
RECURSIVE Numeral(_)
Numeral(n) ==
    IF n < 10 THEN << DigitChar[n] >>
    ELSE Append(Numeral(n \div 10), DigitChar[n % 10])

\* v is the number the digit string ds denotes
Denotes(ds, v) == v >= 0 /\ Numeral(v) = StripZeros(ds)

\* the digit string denotes a number of int's range
FitsInt(ds) ==
    LET t == StripZeros(ds)
        m == Numeral(INT_MAX)
    IN  \/ Len(t) < Len(m)
        \/ /\ Len(t) = Len(m)
           /\ \/ t = m
              \/ \E k \in 1..Len(t) :
                    /\ \A i \in 1..(k - 1) : t[i] = m[i]
                    /\ DigitVal[t[k]] < DigitVal[m[k]]

\* this step issued exactly one track-switch request, for the line's kind and
\* with the number the line denotes, and no other
IssuedSwitchFor(line) ==
    /\ Len(requests') = Len(requests) + 1
    /\ SubSeq(requests', 1, Len(requests)) = requests
    /\ requests'[Len(requests')][1] = WantedProperty(line)
    /\ Denotes(Tail(line), requests'[Len(requests')][2])

\* the thread is back at its loop condition and has asked for no termination
StaysInLoop ==
    /\ pcInput' = "check"
    /\ inputQuitCalls' = inputQuitCalls
    /\ loopRunning' = loopRunning

-----------------------------------------------------------------------------
\* C1: once the Command Interpreter has read the line q, under every fair
\* interleaving of the threads the process eventually exits with code 0.
QuitCommandLeadsToExit ==
    QuitRead ~> (pcMain = "exited" /\ exitCode = 0)

\* C2: the step that reads q calls g_main_loop_quit once, issues no track
\* switch and leaves the loop; afterwards the thread reads no line, issues
\* no request and asks for no further termination.
QuitCommandStopsInterpreter ==
    [][ /\ (ReadStep /\ lastLine' = QuitLine) =>
              /\ inputQuitCalls' = inputQuitCalls + 1
              /\ inputQuitCalls' = 1
              /\ ~loopRunning'
              /\ requests' = requests
              /\ pcInput' = "done"
        /\ QuitRead =>
              /\ pcInput = "done" /\ pcInput' = "done"
              /\ linesRead' = linesRead /\ lastLine' = lastLine
              /\ requests' = requests
              /\ inputQuitCalls' = inputQuitCalls ]_vars

QuitCommandHandled ==
    /\ QuitRead /\ linesRead < MaxLines
    /\ pcInput = "done" /\ inputQuitCalls = 1 /\ ProcessAlive

\* C3, as claimed: every line a<N> or s<N> issues exactly one request of its
\* kind with value N and keeps the thread in its loop.
TrackLineIssuesSwitch ==
    [][ (ReadStep /\ IsTrackLine(lastLine')) =>
            (IssuedSwitchFor(lastLine') /\ StaysInLoop) ]_vars

\* C3, amended: so it is when N is at most INT_MAX; for a larger N no request
\* is issued, "Invalid track number" is printed and the thread stays in its
\* loop.
TrackLineInRangeIssuesSwitch ==
    [][ (ReadStep /\ IsTrackLine(lastLine')) =>
            /\ StaysInLoop
            /\ IF FitsInt(Tail(lastLine'))
               THEN IssuedSwitchFor(lastLine')
               ELSE /\ requests' = requests
                    /\ inputLog' = "Invalid track number" ]_vars

TrackLineSwitched ==
    /\ lastLine = << "s", "0", "1" >>
    /\ requests = << << "current-text", 1 >> >>
    /\ pcInput = "check"

\* C4: every line that is neither q nor of the form [a|s]<digits> makes the
\* thread print an invalid-command message and go on with its loop.
InvalidLineIsLogged ==
    [][ (ReadStep /\ lastLine' # QuitLine /\ ~IsTrackLine(lastLine')) =>
            /\ inputLog' = "Invalid track number"
            /\ StaysInLoop ]_vars

\* C5: a track-switch request is issued only for a line of the form
\* [a|s]<digits>; every other line leaves the requests as they were.
OnlyTrackLinesSwitch ==
    [][ (requests' # requests) => (ReadStep /\ IsTrackLine(lastLine')) ]_vars

\* the main thread has returned from m_inputThread.join()
AfterJoin == pcMain \in {"return0", "cleanup0", "destroyed0", "exited"}

\* C6: while the Command Interpreter can still issue a track switch or a
\* quit request both handles are set and their objects alive, the thread
\* never passes a released handle to the engine, and the main thread sets
\* m_quit before it joins, joins before it releases the pipeline, and
\* releases the pipeline before the loop.
TeardownWaitsForInterpreter ==
    /\ pcInput \in {"check", "getline"} => (PipelineUsable /\ LoopUsable)
    /\ "input" \notin usedReleased
    /\ pcMain = "join" => mQuit
    /\ pipelineReleases > 0 => (AfterJoin /\ mQuit /\ pcInput = "done")
    /\ loopReleases > 0 => pipelineReleases > 0

InterpreterAliveAtJoin ==
    pcMain = "join" /\ mQuit /\ pcInput = "getline" /\ linesRead < MaxLines

\* C7: the Track Inspector never passes a released pipeline handle to the
\* engine.
InspectorNeverUsesReleasedPipeline == "info" \notin usedReleased

\* C8: the pipeline and the loop are each released at most once; from every
\* state the program reaches a second cleanup right after a first changes
\* nothing and releases nothing; cleanup releases nothing when setupPlayer
\* has not succeeded, nor once the destructor has run.
CleanupIsIdempotent ==
    /\ pipelineReleases <= 1 /\ loopReleases <= 1
    /\ Cleanup(Cleanup(Player)) = Cleanup(Player)
    /\ Cleanup(Cleanup(Player)).pipelineReleases <= 1
    /\ Cleanup(Cleanup(Player)).loopReleases <= 1
    /\ setupResult # "ok" => Cleanup(Player) = Player
    /\ pcMain \in {"destroyed0", "destroyed2", "exited"} =>
           Cleanup(Player) = Player

CleanupHasRun ==
    pcMain = "destroyed0" /\ pipelineReleases = 1 /\ loopReleases = 1

\* C9: once setupPlayer has failed, playback is never requested, neither
\* thread is spawned, no loop is created or run, and the process eventually
\* exits, with code 2.
ConstructionFailureExitsTwo ==
    /\ [](setupResult = "failed" =>
            /\ playRequests = 0 /\ pipeState = "NULL"
            /\ pcInfo = "none" /\ pcInput = "none"
            /\ loopObj = "none" /\ mMainloop = "null" /\ ~loopRunning
            /\ exitCode \in {-1, 2})
    /\ (setupResult = "failed") ~> (pcMain = "exited" /\ exitCode = 2)

ConstructionFailed == setupResult = "failed" /\ exitCode = 2

\* the step in which handleBusMessage handled an error notification
ErrorStep == lastBus # "error" /\ lastBus' = "error"

\* C10, as claimed: once an error notification has been handled the process
\* eventually exits with code 0.
ErrorLeadsToExit ==
    (lastBus = "error") ~> (pcMain = "exited" /\ exitCode = 0)

\* C10, amended: handling an error notification stops the loop and leaves
\* the pipeline's state alone, playback is requested at most once, an exit
\* after an error has code 0, and the process eventually exits with code 0
\* provided standard input goes on to deliver a line or end-of-input.
ErrorLeadsToExitGivenInput ==
    /\ [][ ErrorStep =>
              /\ ~loopRunning'
              /\ bridgeQuitCalls' = bridgeQuitCalls + 1
              /\ playRequests' = playRequests
              /\ pipeState' = pipeState ]_vars
    /\ [](playRequests <= 1)
    /\ []((lastBus = "error" /\ pcMain = "exited") => exitCode = 0)
    /\ (WF_vars(StdinDelivers) => ErrorLeadsToExit)

ExitedAfterError ==
    lastBus = "error" /\ bridgeQuitCalls = 1 /\ pcMain = "exited" /\ exitCode = 0

IsPrefix(a, b) == Len(a) <= Len(b) /\ SubSeq(b, 1, Len(a)) = a

\* a line a<N> or s<N> with N in int's range
ValidTrackLine(line) == IsTrackLine(line) /\ FitsInt(Tail(line))

\* C11: the request of a valid track line is issued in the step that reads
\* the line, on a pipeline that is still alive, before the Command
\* Interpreter has asked for termination and before the pipeline is released;
\* the issued requests are only ever extended, and never after the q command
\* or the release of the pipeline.
TrackRequestsPrecedeShutdown ==
    [][ /\ (ReadStep /\ ValidTrackLine(lastLine')) =>
              /\ IssuedSwitchFor(lastLine')
              /\ inputQuitCalls = 0 /\ inputQuitCalls' = 0
              /\ PipelineUsable
              /\ pipelineReleases = 0 /\ pipelineReleases' = 0
        /\ IsPrefix(requests, requests')
        /\ (inputQuitCalls > 0 \/ pipelineReleases > 0) =>
              requests' = requests ]_vars

TrackThenQuitThenShutdown ==
    /\ lastLine = QuitLine /\ linesRead = 2
    /\ requests = << << "current-audio", 2 >> >>
    /\ inputQuitCalls = 1 /\ pipelineReleases = 1

\* C12: run without a URL, the process constructs no player, no pipeline and
\* no loop, spawns no thread, requests no playback, and eventually exits,
\* with code 1; code 1 is the exit code of that case only.
UsageErrorExitsOne ==
    /\ [](argc < 2 =>
            /\ pcMain \in {"main", "exited"}
            /\ setupResult = "pending"
            /\ mPipeline = "null" /\ pipelineObj = "none"
            /\ mMainloop = "null" /\ loopObj = "none" /\ ~loopRunning
            /\ pcInfo = "none" /\ pcInput = "none"
            /\ playRequests = 0 /\ pipelineReleases = 0 /\ loopReleases = 0
            /\ exitCode \in {-1, 1})
    /\ [](exitCode = 1 => argc < 2)
    /\ (argc < 2) ~> (pcMain = "exited" /\ exitCode = 1)

UsageErrorExited == argc = 1 /\ pcMain = "exited" /\ exitCode = 1

\* C13: once line 82 has set m_quit the Command Interpreter reads at most one
\* further line, and after that one it is not waiting for another; it has
\* left its loop whenever std::getline has reported end-of-input; and it
\* does leave its loop once m_quit is set, provided standard input goes on
\* to deliver a line or end-of-input.
CancellationIsPrompt ==
    /\ [](mQuit => linesRead <= linesAtQuit + 1)
    /\ []((mQuit /\ linesRead = linesAtQuit + 1) => pcInput # "getline")
    /\ [](stdinEof => pcInput = "done")
    /\ (WF_vars(StdinDelivers) => (mQuit ~> (pcInput = "done")))

OneReadAfterQuitFlag ==
    /\ mQuit /\ linesRead = linesAtQuit + 1 /\ linesRead < MaxLines
    /\ lastLine # QuitLine /\ ~stdinEof /\ pcInput = "done"

\* the main thread waits in the join while the Command Interpreter waits in
\* std::getline
Stalled == pcMain = "join" /\ pcInput = "getline"

\* C14, as claimed: when the loop has returned because of an error or
\* end-of-stream, the join has returned only if std::getline has delivered
\* one more line since m_quit was set, or end-of-input.
ExitNeedsFurtherInput ==
    (AfterJoin /\ bridgeQuitCalls = 1 /\ inputQuitCalls = 0) =>
        (linesRead > linesAtQuit \/ stdinEof)

\* C14, amended: while the main thread waits in the join and the Command Interpreter
\* waits for input, the main thread cannot move: it stays in the join,
\* nothing is released and the process does not exit, until std::getline
\* delivers a line or end-of-input, the only ways out of the read; the
\* pipeline is not released before the thread has ended; and once the loop
\* has returned the process eventually exits with code 0, provided standard
\* input goes on to deliver a line or end-of-input. (A thread that is at its
\* loop condition when m_quit is set ends without any further input.)
ShutdownStallsUntilInput ==
    /\ [](Stalled => ~ENABLED MainThread)
    /\ [][ Stalled =>
              /\ pcMain' = "join"
              /\ pipelineReleases' = 0 /\ loopReleases' = 0
              /\ exitCode' = -1 ]_vars
    /\ [][ (pcInput = "getline" /\ pcInput' # "getline") =>
              (ReadStep \/ (~stdinEof /\ stdinEof')) ]_vars
    /\ [](pipelineReleases > 0 => pcInput = "done")
    /\ (WF_vars(StdinDelivers) =>
          ((pcMain = "after_loop") ~> (pcMain = "exited" /\ exitCode = 0)))

StalledAfterNotification ==
    /\ Stalled /\ mQuit /\ lastBus \in {"error", "eos"}
    /\ bridgeQuitCalls = 1 /\ inputQuitCalls = 0
    /\ pipelineReleases = 0 /\ exitCode = -1


\* the main thread is inside g_main_loop_run and the pipeline is Playing
PlayingInLoop == pcMain = "loop" /\ pipeState = "PLAYING"

\* C15: g_main_loop_quit is called only by the Event Bridge on an error or
\* end-of-stream notification and by the Command Interpreter on the line q.
\* While the main thread is in the loop with the pipeline Playing, the loop
\* stops running only in such a step: a state-changed or other notification,
\* a track line, an invalid line, an ignored line and end-of-input all leave
\* it running.
OnlyErrorEosQuitStopLoop ==
    [][ /\ (bridgeQuitCalls' # bridgeQuitCalls) =>
              /\ bridgeQuitCalls' = bridgeQuitCalls + 1
              /\ lastBus' \in {"error", "eos"}
              /\ ~ReadStep
        /\ (inputQuitCalls' # inputQuitCalls) =>
              /\ inputQuitCalls' = inputQuitCalls + 1
              /\ ReadStep
              /\ lastLine' = QuitLine
        /\ (PlayingInLoop /\ loopRunning /\ ~loopRunning') =>
              \/ bridgeQuitCalls' # bridgeQuitCalls
              \/ inputQuitCalls' # inputQuitCalls
        /\ (PlayingInLoop /\ ReadStep /\ lastLine' # QuitLine) =>
              /\ loopRunning' = loopRunning
              /\ inputQuitCalls' = inputQuitCalls
        /\ (PlayingInLoop /\ ~stdinEof /\ stdinEof') =>
              /\ loopRunning' = loopRunning
              /\ inputQuitCalls' = inputQuitCalls ]_vars

\* a state-changed notification, a track line, an invalid line and
\* end-of-input have all been handled and the loop still runs
LoopSurvivesOtherEvents ==
    /\ PlayingInLoop
    /\ loopRunning
    /\ lastBus = "state-changed-pipeline"
    /\ lastLine = << "a", "x" >>
    /\ inputLog = "Invalid track number"
    /\ requests = << << "current-audio", 2 >> >>
    /\ stdinEof
    /\ bridgeQuitCalls = 0
    /\ inputQuitCalls = 0

\* a step in which handleBusMessage wrote something
BridgeStep ==
    \/ lastBus' # lastBus
    \/ busLog' # busLog
    \/ bridgeQuitCalls' # bridgeQuitCalls

\* C16: a step of the Event Bridge leaves the pipeline's uri, latency and
\* buffer sizes, its lifecycle state, the track selections made so far and
\* every handle unchanged, and the watch stays installed; beside its log
\* line it only stops the loop, and only for an error or end-of-stream.
BridgeNeverMutatesPipeline ==
    /\ [][ BridgeStep =>
              /\ pipeConfig' = pipeConfig
              /\ pipeConfig = PlayerConfig
              /\ pipeState' = pipeState
              /\ pipeState = "PLAYING"
              /\ requests' = requests
              /\ UNCHANGED << mPipeline, pipelineObj, pipelineReleases, mMainloop,
                              loopObj, loopReleases, playRequests, mQuit >>
              /\ UNCHANGED << mainVars, infoVars, pcInput, lastLine, linesRead,
                              inputLog, inputQuitCalls, stdinEof, usedReleased >>
              /\ busWatch /\ busWatch'
              /\ busLog' = BusLogOf(lastBus')
              /\ IF lastBus' \in {"error", "eos"}
                 THEN ~loopRunning' /\ bridgeQuitCalls' = bridgeQuitCalls + 1
                 ELSE UNCHANGED << loopRunning, bridgeQuitCalls >> ]_vars
    /\ [](setupResult = "ok" => busWatch)

\* the bridge has handled an end-of-stream after a subtitle track was
\* selected: the selection, the configuration and the watch are as before
EosHandledPipelineIntact ==
    /\ lastBus = "eos"
    /\ bridgeQuitCalls = 1
    /\ pcMain = "loop"
    /\ ~loopRunning
    /\ busWatch
    /\ pipeState = "PLAYING"
    /\ pipeConfig = PlayerConfig
    /\ requests = << << "current-text", 1 >> >>

\* how many objects of a handle were created
Created(obj) == IF obj = "none" THEN 0 ELSE 1

\* a step in which cleanup releases the pipeline or the loop
ReleaseStep ==
    \/ pipelineReleases' # pipelineReleases
    \/ loopReleases' # loopReleases

\* C17: once the process has exited, with code 0, 1 or 2, the pipeline has
\* been released as many times as one was created (0 or 1) and no object is
\* left alive, and the same for the loop; exit code 0 goes with one creation
\* and one release of each, exit codes 1 and 2 with none. Neither is ever
\* released twice, and a release happens only after g_main_loop_run has
\* returned or when it was never entered, on an object that was alive.
ExactlyOnceTeardown ==
    /\ [](pipelineReleases <= Created(pipelineObj) /\ loopReleases <= Created(loopObj))
    /\ [](pcMain = "exited" =>
            /\ exitCode \in {0, 1, 2}
            /\ pipelineReleases = Created(pipelineObj)
            /\ loopReleases = Created(loopObj)
            /\ pipelineObj # "alive" /\ loopObj # "alive"
            /\ mPipeline = "null" /\ mMainloop = "null"
            /\ exitCode = 0 => (pipelineReleases = 1 /\ loopReleases = 1)
            /\ exitCode \in {1, 2} => (pipelineReleases = 0 /\ loopReleases = 0))
    /\ [][ ReleaseStep =>
              /\ pcMain \notin {"run", "loop"}
              /\ ~loopRunning
              /\ pipelineReleases' \in {pipelineReleases, pipelineReleases + 1}
              /\ loopReleases' \in {loopReleases, loopReleases + 1}
              /\ pipelineReleases' # pipelineReleases =>
                     (pipelineObj = "alive" /\ pipelineObj' = "freed")
              /\ loopReleases' # loopReleases =>
                     (loopObj = "alive" /\ loopObj' = "freed") ]_vars

\* the process has exited with code 0 after the q command, with each handle
\* created once and released once
ExitedAfterQuitTornDownOnce ==
    /\ pcMain = "exited"
    /\ exitCode = 0
    /\ inputQuitCalls = 1
    /\ bridgeQuitCalls = 0
    /\ pipelineObj = "freed" /\ pipelineReleases = 1
    /\ loopObj = "freed" /\ loopReleases = 1

====
